---------------------------- MODULE Spec2Model ----------------------------
(***************************************************************************)
(* A model of EcoPVPipeline (CORE APPLICATION/pipeline/inference.py): the  *)
(* ground-truth extraction from COCO annotation documents, the per-image   *)
(* inference loop, and the evaluation that joins both tables and computes  *)
(* the classification and area metrics.                                    *)
(*                                                                         *)
(* Conventions.                                                            *)
(*  - A table (a pandas DataFrame, or a list of row dictionaries) is a     *)
(*    sequence of records, in row order.  pd.DataFrame() - the frame with  *)
(*    no columns and no rows - and a frame with columns and no rows are    *)
(*    both the empty sequence while in memory (both are `.empty`); what    *)
(*    tells them apart, the header, is kept by the CSV file (to_csv).      *)
(*  - Areas, confidences and sizes are exact numbers: naturals, and        *)
(*    fractions [num, den] for the means.  NaN is explicit ([nan |-> ..]). *)
(*  - A file name is a natural number: its rank in the lexicographic order *)
(*    of the names, which is the order sorted() puts the paths in.         *)
(*  - An optional key of a JSON object is a flag and a value               *)
(*    (has_area / area): ann.get("area", d) is IF has_area THEN area       *)
(*    ELSE d.                                                              *)
(***************************************************************************)
EXTENDS Integers, Sequences, FiniteSets, TLC

VARIABLES
    fs,           \* the dataset: split -> [dir, files, coco] (what download() lays out on disk)
    dataset_dir,  \* self.dataset_dir: FALSE is None, TRUE is the dataset location
    obj_csv,      \* outputs/annotations_with_geo.csv           (<<>> = no such file)
    gt_csv,       \* outputs/gt_image_level_all_images.csv
    pred_csv,     \* outputs/pred_image_level.csv
    pred_jsonl,   \* outputs/pred_raw.jsonl
    merged_csv,   \* outputs/gt_pred_image_level_merged_full.csv
    ret,          \* how the last call ended: its name, whether it raised, what it returned
    runs,         \* how many times run_inference has gone to the inference service
    inference     \* the run_inference call in progress in run_complete_pipeline: its locals

vars == <<fs, dataset_dir, obj_csv, gt_csv, pred_csv, pred_jsonl, merged_csv, ret, runs, inference>>

-----------------------------------------------------------------------------
(* Bounds of the model. *)

\* images listed in one split's annotation document (ground-truth extraction)
MaxImages == 2
\* annotation records in one split's annotation document
MaxAnns == 2
\* image files in the directory of a split (inference loop)
MaxPaths == 3
\* image files in the whole dataset (pipeline)
MaxFiles == 2
\* runs of run_inference on one pipeline object
MaxRuns == 1
\* rows keyed by distinct files in the tables handed to the evaluator
MaxRows == 3

-----------------------------------------------------------------------------
(* Helpers on sequences and numbers. *)

Range(s) == {s[k] : k \in DOMAIN s}

RECURSIVE SumSeq(_)
SumSeq(s) == IF s = <<>> THEN 0 ELSE s[1] + SumSeq(Tail(s))

RECURSIVE Concat(_)
\* the concatenation of a sequence of sequences
Concat(ss) == IF ss = <<>> THEN <<>> ELSE ss[1] \o Concat(Tail(ss))

Abs(x) == IF x < 0 THEN -x ELSE x

RECURSIVE Gcd(_, _)
Gcd(a, b) == IF b = 0 THEN a ELSE Gcd(b, a % b)

\* a fraction num/den in lowest terms (den > 0, num >= 0)
Frac(n, d) == LET g == Gcd(n, d) IN [num |-> n \div g, den |-> d \div g]

FracAdd(a, b) == Frac(a.num * b.den + b.num * a.den, a.den * b.den)

RECURSIVE FracSum(_)
FracSum(s) == IF s = <<>> THEN Frac(0, 1) ELSE FracAdd(s[1], FracSum(Tail(s)))

\* all the orders a finite set can be listed in
Perms(S) == {p \in [1 .. Cardinality(S) -> S] : Range(p) = S}

RECURSIVE Insert(_, _)
Insert(x, s) == IF s = <<>> THEN <<x>>
                ELSE IF x <= s[1] THEN <<x>> \o s
                ELSE <<s[1]>> \o Insert(x, Tail(s))

RECURSIVE Sorted(_)
\* sorted(image_paths)
Sorted(s) == IF s = <<>> THEN <<>> ELSE Insert(s[1], Sorted(Tail(s)))


-----------------------------------------------------------------------------
(* The dataset on disk and the COCO annotation documents. *)

\* for split in ["train", "valid", "test"]
Splits == <<"train", "valid", "test">>

SplitSet == Range(Splits)

SeqsUpTo(S, n) == UNION {[1 .. k -> S] : k \in 0 .. n}

\* An image entry of a COCO document. Image ids count from 0 in each document;
\* the image with id i is the file with name rank i + 1.
ImageEntry(f) == [id |-> f - 1, file_name |-> f, width |-> 640, height |-> 640]

\* The images section: any selection of the files, listed in any order.
ImageLists(n) ==
    UNION {{[k \in DOMAIN p |-> ImageEntry(p[k])] : p \in Perms(F)} : F \in SUBSET (1 .. n)}

\* An annotation record without its image: bbox = [x_min, y_min, w, h]; "area"
\* and attributes.area_m2 may each be omitted.
Shape(bbox, has_area, area, has_area_m2, area_m2) ==
    [bbox |-> bbox, has_area |-> has_area, area |-> area,
     has_area_m2 |-> has_area_m2, area_m2 |-> area_m2]

\* "area" omitted, equal to the area of the box, or the smaller area of the
\* outline; area_m2 given or not
AnnShapes ==
    {Shape(<<0, 0, 2, 3>>, FALSE, 0, FALSE, 0),
     Shape(<<0, 0, 2, 3>>, TRUE, 6, TRUE, 7),
     Shape(<<0, 0, 2, 3>>, TRUE, 5, FALSE, 0),
     Shape(<<1, 1, 4, 1>>, FALSE, 0, TRUE, 7),
     Shape(<<1, 1, 4, 1>>, TRUE, 4, FALSE, 0),
     Shape(<<1, 1, 4, 1>>, TRUE, 3, TRUE, 9)}

AnnOf(img, shape) ==
    [image_id |-> img.id, bbox |-> shape.bbox,
     has_area |-> shape.has_area, area |-> shape.area,
     has_area_m2 |-> shape.has_area_m2, area_m2 |-> shape.area_m2]

\* The annotation records that may refer to the images of `images`.
AnnRecords(images) == {AnnOf(img, shape) : img \in Range(images), shape \in AnnShapes}

\* The COCO documents with at most nImgs images and nAnns annotation records,
\* every record referring to a listed image.
CocoDocs(nImgs, nAnns) ==
    UNION {{[images |-> images, annotations |-> anns] :
              anns \in SeqsUpTo(AnnRecords(images), nAnns)} :
           images \in ImageLists(nImgs)}

\* A split of the dataset: whether its directory exists, the image files in it,
\* and its _annotations.coco.json (<<>> when there is none, else <<document>>).
NoDir == [dir |-> FALSE, files |-> {}, coco |-> <<>>]

\* os.path.exists(os.path.join(dataset_dir, split, "_annotations.coco.json"))
CocoExists(dataset, split) == dataset[split].dir /\ dataset[split].coco # <<>>

\* json.load(f)
LoadCoco(dataset, split) == dataset[split].coco[1]

-----------------------------------------------------------------------------
(* parse_coco_split: the object-level rows of one split. *)

\* images_by_id = {img["id"]: img for img in coco.get("images", [])}
\* (a later entry with the same id replaces an earlier one)
ImagesById(images) ==
    [i \in {images[k].id : k \in DOMAIN images} |->
        images[CHOOSE k \in DOMAIN images :
                  /\ images[k].id = i
                  /\ \A j \in DOMAIN images : images[j].id = i => j <= k]]

ParseRow(split_name, ann, images_by_id) ==
    LET bbox == ann.bbox
        img_info == images_by_id[ann.image_id]
    IN  [split |-> split_name,
         image_id |-> ann.image_id,
         file_name |-> img_info.file_name,
         img_width_px |-> img_info.width,
         img_height_px |-> img_info.height,
         x_min_px |-> bbox[1],
         y_min_px |-> bbox[2],
         width_px |-> bbox[3],
         height_px |-> bbox[4],
         x_max_px |-> bbox[1] + bbox[3],
         y_max_px |-> bbox[2] + bbox[4],
         \* ann.get("area", bbox[2] * bbox[3])
         area_px |-> IF ann.has_area THEN ann.area ELSE bbox[3] * bbox[4],
         \* attrs.get("area_m2")
         has_area_m2 |-> ann.has_area_m2,
         area_m2 |-> ann.area_m2]

parse_coco_split(split_name, dataset) ==
    IF ~CocoExists(dataset, split_name)
    THEN <<>>
    ELSE LET coco == LoadCoco(dataset, split_name)
             images_by_id == ImagesById(coco.images)
         IN  [k \in DOMAIN coco.annotations |->
                 ParseRow(split_name, coco.annotations[k], images_by_id)]

-----------------------------------------------------------------------------
(* build_gt_for_split: the image-level rows of one split. *)

\* df_imgs: one row per entry of the images section, in its order
ImageRows(split, imgs) ==
    [k \in DOMAIN imgs |->
        [split |-> split, file_name |-> imgs[k].file_name, image_id |-> imgs[k].id,
         img_width_px |-> imgs[k].width, img_height_px |-> imgs[k].height]]

\* rows_ann.append({"image_id": ..., "area_px": ann.get("area", 0.0),
\*                  "area_m2": attrs.get("area_m2", 0.0)})
AnnRow(ann) ==
    [image_id |-> ann.image_id,
     area_px |-> IF ann.has_area THEN ann.area ELSE 0,
     area_m2 |-> IF ann.has_area_m2 THEN ann.area_m2 ELSE 0]

\* df_ann.groupby("image_id").agg(size, sum, sum): one entry per image id that
\* has annotation rows
GroupByImageId(rows_ann) ==
    [i \in {rows_ann[k].image_id : k \in DOMAIN rows_ann} |->
        LET mine == SelectSeq(rows_ann, LAMBDA r : r.image_id = i)
        IN  [num_boxes_gt |-> Len(mine),
             area_px_gt |-> SumSeq([k \in DOMAIN mine |-> mine[k].area_px]),
             area_m2_gt |-> SumSeq([k \in DOMAIN mine |-> mine[k].area_m2])]]

GtRow(img_row, num_boxes_gt, area_px_gt, area_m2_gt) ==
    [split |-> img_row.split, file_name |-> img_row.file_name,
     image_id |-> img_row.image_id,
     img_width_px |-> img_row.img_width_px, img_height_px |-> img_row.img_height_px,
     num_boxes_gt |-> num_boxes_gt, area_px_gt |-> area_px_gt,
     area_m2_gt |-> area_m2_gt, has_solar_gt |-> num_boxes_gt > 0]

\* the merge as how="inner" would do it: an image row without an aggregate is dropped
MergeImagesInner(df_imgs, agg) ==
    LET kept == SelectSeq(df_imgs, LAMBDA r : r.image_id \in DOMAIN agg)
    IN  [k \in DOMAIN kept |->
            LET a == agg[kept[k].image_id]
            IN  GtRow(kept[k], a.num_boxes_gt, a.area_px_gt, a.area_m2_gt)]

\* pd.merge(df_imgs, agg, on="image_id", how="left") and the fillna(0) of the
\* three aggregate columns: every image row is kept, in order; an image without
\* an aggregate gets NaN, which fillna turns into 0
MergeImagesLeft(df_imgs, agg) ==
    [k \in DOMAIN df_imgs |->
        IF df_imgs[k].image_id \in DOMAIN agg
        THEN LET a == agg[df_imgs[k].image_id]
             IN  GtRow(df_imgs[k], a.num_boxes_gt, a.area_px_gt, a.area_m2_gt)
        ELSE GtRow(df_imgs[k], 0, 0, 0)]

build_gt_for_split(split, dataset) ==
    IF ~CocoExists(dataset, split)
    THEN <<>>
    ELSE LET coco == LoadCoco(dataset, split)
             df_imgs == ImageRows(split, coco.images)
             anns == coco.annotations
         IN  IF anns = <<>>
             THEN [k \in DOMAIN df_imgs |-> GtRow(df_imgs[k], 0, 0, 0)]
             ELSE MergeImagesLeft(df_imgs, GroupByImageId([k \in DOMAIN anns |-> AnnRow(anns[k])]))

-----------------------------------------------------------------------------
(* Files and frames. *)

NoFile == <<>>

\* pd.DataFrame(rows) of a list of row dictionaries, and pd.concat(dfs) of
\* non-empty frames: the columns are those of the rows, so a frame made of no
\* row at all (pd.DataFrame(), pd.DataFrame([])) has no columns
DataFrame(rows) == [columns |-> rows # <<>>, rows |-> rows]

\* df.to_csv(path, index=False): the header line and the rows
to_csv(df) == <<df>>

\* os.path.exists(path)
Exists(file) == file # NoFile

\* pd.read_csv raises EmptyDataError on a file without a header line (and a
\* frame read from such a file has neither "split" nor "file_name" to merge on)
ReadCsvRaises(file) == ~file[1].columns

read_csv(file) == file[1].rows

-----------------------------------------------------------------------------
(* run_inference_on_split: the prediction rows of one split. *)

\* What the inference service answers for an image: the call raises, or it
\* returns a result with its list of predictions.
Failure == [ok |-> FALSE, predictions |-> <<>>]

Result(preds) == [ok |-> TRUE, predictions |-> preds]

Prediction(conf, w, h) == [confidence |-> conf, width |-> w, height |-> h]

\* max((p.get("confidence", 0.0) for p in preds), default=0.0), in percent
MaxConf(preds) ==
    IF preds = <<>> THEN 0
    ELSE CHOOSE c \in {preds[k].confidence : k \in DOMAIN preds} :
            \A k \in DOMAIN preds : preds[k].confidence <= c

\* area_px_pred += w * h for every prediction
AreaPred(preds) == SumSeq([k \in DOMAIN preds |-> preds[k].width * preds[k].height])

ImagePath(split, file_name) == <<split, file_name>>

PredRow(split, file_name, result) ==
    LET preds == result.predictions
    IN  [split |-> split,
         file_name |-> file_name,
         image_path |-> ImagePath(split, file_name),
         num_preds |-> Len(preds),
         has_solar_pred |-> Len(preds) > 0,
         max_conf_pred |-> MaxConf(preds),
         area_px_pred |-> AreaPred(preds)]

RawRecord(split, file_name, result) ==
    [split |-> split, file_name |-> file_name,
     image_path |-> ImagePath(split, file_name), result |-> result]

RECURSIVE InferLoopAbort(_, _, _)
\* the loop as it would be with the failure ending it: no image after a failed
\* one is sent to the service
InferLoopAbort(split, image_paths, service) ==
    IF image_paths = <<>>
    THEN [rows |-> <<>>, raw_records |-> <<>>, calls |-> <<>>]
    ELSE LET file_name == Head(image_paths)
             result == service[file_name]
         IN  IF ~result.ok
             THEN [rows |-> <<>>, raw_records |-> <<>>, calls |-> <<file_name>>]
             ELSE LET rest == InferLoopAbort(split, Tail(image_paths), service)
                  IN  [rows |-> <<PredRow(split, file_name, result)>> \o rest.rows,
                       raw_records |-> <<RawRecord(split, file_name, result)>> \o rest.raw_records,
                       calls |-> <<file_name>> \o rest.calls]

RECURSIVE InferLoop(_, _, _)
\* for img_path in image_paths: one call of inference_client.infer per image
\* (`calls` lists them); an exception is caught and the loop continues with the
\* next image; a result appends one prediction row and one raw record
InferLoop(split, image_paths, service) ==
    IF image_paths = <<>>
    THEN [rows |-> <<>>, raw_records |-> <<>>, calls |-> <<>>]
    ELSE LET file_name == Head(image_paths)
             result == service[file_name]
             rest == InferLoop(split, Tail(image_paths), service)
         IN  IF ~result.ok
             THEN [rows |-> rest.rows, raw_records |-> rest.raw_records,
                   calls |-> <<file_name>> \o rest.calls]
             ELSE [rows |-> <<PredRow(split, file_name, result)>> \o rest.rows,
                   raw_records |-> <<RawRecord(split, file_name, result)>> \o rest.raw_records,
                   calls |-> <<file_name>> \o rest.calls]

\* glob_order is the order glob.glob lists the image files of the split in;
\* service maps each file to the answer of the inference service for it
run_inference_on_split(split, glob_order, service) ==
    InferLoop(split, Sorted(glob_order), service)

-----------------------------------------------------------------------------
(* evaluate_predictions: the merged table and the metrics. *)

\* the merge as how="left" would do it: a ground-truth row without a prediction
\* row is kept, its prediction columns those of an image without predictions
MergeLeft(df_gt, df_pred) ==
    Concat([i \in DOMAIN df_gt |->
        LET matches == SelectSeq(df_pred,
                           LAMBDA p : p.split = df_gt[i].split /\ p.file_name = df_gt[i].file_name)
        IN  IF matches = <<>>
            THEN <<df_gt[i] @@ PredRow(df_gt[i].split, df_gt[i].file_name, Result(<<>>))>>
            ELSE [k \in DOMAIN matches |-> df_gt[i] @@ matches[k]]])

\* pd.merge(df_gt, df_pred, on=["split", "file_name"], how="inner"): for each
\* ground-truth row, in order, one row per prediction row with the same key;
\* the two tables share no other column
Merge(df_gt, df_pred) ==
    Concat([i \in DOMAIN df_gt |->
        LET matches == SelectSeq(df_pred,
                           LAMBDA p : p.split = df_gt[i].split /\ p.file_name = df_gt[i].file_name)
        IN  [k \in DOMAIN matches |-> df_gt[i] @@ matches[k]]])

\* ((df["has_solar_gt"] == gt) & (df["has_solar_pred"] == pred)).sum()
CountCell(df_merged, gt, pred) ==
    Len(SelectSeq(df_merged, LAMBDA r : r.has_solar_gt = gt /\ r.has_solar_pred = pred))

TruePositives(df_merged) == CountCell(df_merged, TRUE, TRUE)

TrueNegatives(df_merged) == CountCell(df_merged, FALSE, FALSE)

FalsePositives(df_merged) == CountCell(df_merged, FALSE, TRUE)

\* a false-negative count that also takes the rows predicted positive
FalseNegativesAnyPred(df_merged) ==
    Len(SelectSeq(df_merged, LAMBDA r : r.has_solar_gt = TRUE))

FalseNegatives(df_merged) == CountCell(df_merged, TRUE, FALSE)

\* n / (d + eps) with eps = 1e-9: the quotient is kept as its two terms, the
\* eps of the denominator understood
EpsRatio(n, d) == [num |-> n, den |-> d]

\* 2 * precision * recall / (precision + recall + eps), kept as its terms
F1(precision, recall) == [precision |-> precision, recall |-> recall]

\* a float: NaN, or the fraction num/den
NaN == [nan |-> TRUE, num |-> 0, den |-> 1]

Num(f) == [nan |-> FALSE, num |-> f.num, den |-> f.den]

\* Series.mean(): the mean of the values that are not NaN; NaN when there is none
Mean(series) ==
    LET vals == SelectSeq(series, LAMBDA x : ~x.nan)
        total == FracSum(vals)
    IN  IF vals = <<>> THEN NaN
        ELSE Num(Frac(total.num, total.den * Len(vals)))

\* np.sqrt(x), kept as its argument
Sqrt(x) == [sqrt_of |-> x]

\* the mask with `and` in the place of `or`
AreaMaskBoth(r) == r.area_px_gt > 0 /\ r.area_px_pred > 0

\* mask = (df_merged["area_px_gt"] > 0) | (df_merged["area_px_pred"] > 0)
AreaMask(r) == r.area_px_gt > 0 \/ r.area_px_pred > 0

\* a relative error that is 0 where the ground-truth area is 0
RelErrZero(abs_err, area_gt) ==
    IF area_gt = 0 THEN Num(Frac(0, 1)) ELSE Num(Frac(abs_err, area_gt))

\* abs_err / area_gt.replace(0, np.nan): NaN where the ground-truth area is 0
RelErr(abs_err, area_gt) ==
    IF area_gt = 0 THEN NaN ELSE Num(Frac(abs_err, area_gt))

Times100(x) == IF x.nan THEN NaN ELSE Num(Frac(x.num * 100, x.den))

Metrics(df_merged) ==
    LET tp == TruePositives(df_merged)
        tn == TrueNegatives(df_merged)
        fp == FalsePositives(df_merged)
        fn == FalseNegatives(df_merged)
        precision == EpsRatio(tp, tp + fp)
        recall == EpsRatio(tp, tp + fn)
        masked == SelectSeq(df_merged, AreaMask)
        area_gt == [k \in DOMAIN masked |-> masked[k].area_px_gt]
        area_pred == [k \in DOMAIN masked |-> masked[k].area_px_pred]
        abs_err == [k \in DOMAIN masked |-> Abs(area_pred[k] - area_gt[k])]
        sq_err == [k \in DOMAIN masked |-> (area_pred[k] - area_gt[k]) * (area_pred[k] - area_gt[k])]
        rel_err == [k \in DOMAIN masked |-> RelErr(abs_err[k], area_gt[k])]
    IN  [tp |-> tp, fp |-> fp, fn |-> fn, tn |-> tn,
         accuracy |-> EpsRatio(tp + tn, tp + tn + fp + fn),
         precision |-> precision,
         recall |-> recall,
         f1_score |-> F1(precision, recall),
         mae_px2 |-> Mean([k \in DOMAIN masked |-> Num(Frac(abs_err[k], 1))]),
         rmse_px2 |-> Sqrt(Mean([k \in DOMAIN masked |-> Num(Frac(sq_err[k], 1))])),
         mape_percent |-> Mean([k \in DOMAIN masked |-> Times100(rel_err[k])]),
         num_images_area_eval |-> Len(masked),
         total_images |-> Len(df_merged)]

-----------------------------------------------------------------------------
(* The stages of the pipeline. *)

Raised(op) == [op |-> op, raised |-> TRUE]

Returned(op) == [op |-> op, raised |-> FALSE]

NonEmpty(df) == df # <<>>

\* for split in ["train", "valid", "test"]: df_split = self.parse_coco_split(...);
\* if not df_split.empty: dfs.append(df_split)
ObjectFrames(dataset) ==
    SelectSeq([i \in DOMAIN Splits |-> parse_coco_split(Splits[i], dataset)], NonEmpty)

\* the loop over the splits with the last split left out
GtFramesShort(dataset) ==
    SelectSeq([i \in 1 .. Len(Splits) - 1 |-> build_gt_for_split(Splits[i], dataset)], NonEmpty)

\* for split in ["train", "valid", "test"]: df_split = self.build_gt_for_split(...);
\* if not df_split.empty: dfs_full.append(df_split)
GtFrames(dataset) ==
    SelectSeq([i \in DOMAIN Splits |-> build_gt_for_split(Splits[i], dataset)], NonEmpty)

\* no run_inference call of run_complete_pipeline is in progress
NoCall == [active |-> FALSE, calls |-> <<>>]

\* a check of the dataset location that lets every call through
DatasetMissingNever == FALSE

\* if self.dataset_dir is None: raise ValueError("Dataset not downloaded. ...")
DatasetMissing == ~dataset_dir

\* download_dataset: the download sets self.dataset_dir, or raises (the
\* Roboflow client cannot be set up, the download fails) and leaves it
DownloadDataset ==
    /\ \E ok \in BOOLEAN :
          IF ok
          THEN dataset_dir' = TRUE /\ ret' = Returned("download_dataset")
          ELSE dataset_dir' = dataset_dir /\ ret' = Raised("download_dataset")
    /\ UNCHANGED <<fs, obj_csv, gt_csv, pred_csv, pred_jsonl, merged_csv, runs, inference>>

\* extract_object_level_gt
ExtractObjectLevelGt ==
    /\ IF DatasetMissing
       THEN obj_csv' = obj_csv /\ ret' = Raised("extract_object_level_gt")
       ELSE LET dfs == ObjectFrames(fs)
                df_all == DataFrame(Concat(dfs))
            IN  /\ obj_csv' = to_csv(df_all)
                /\ ret' = Returned("extract_object_level_gt")
    /\ UNCHANGED <<fs, dataset_dir, gt_csv, pred_csv, pred_jsonl, merged_csv, runs, inference>>

\* extract_image_level_gt: the table is written, and then
\* df_full_gt["has_solar_gt"] raises KeyError when the frame has no columns
ExtractImageLevelGt ==
    /\ IF DatasetMissing
       THEN gt_csv' = gt_csv /\ ret' = Raised("extract_image_level_gt")
       ELSE LET dfs_full == GtFrames(fs)
                df_full_gt == DataFrame(Concat(dfs_full))
            IN  /\ gt_csv' = to_csv(df_full_gt)
                /\ ret' = IF df_full_gt.columns
                          THEN Returned("extract_image_level_gt")
                          ELSE Raised("extract_image_level_gt")
    /\ UNCHANGED <<fs, dataset_dir, obj_csv, pred_csv, pred_jsonl, merged_csv, runs, inference>>

\* the image files of the dataset, as (split, file name)
Paths(dataset) == UNION {{<<s, f>> : f \in dataset[s].files} : s \in SplitSet}

\* the orders glob.glob may list the image files of each split in
GlobOrders(dataset) ==
    {g \in [SplitSet -> UNION {Perms(dataset[s].files) : s \in SplitSet}] :
        \A s \in SplitSet : g[s] \in Perms(dataset[s].files)}

\* the answers of the inference service in the pipeline: the call fails, or it
\* finds nothing, or it finds one panel
Outcomes == {Failure, Result(<<>>), Result(<<Prediction(80, 3, 3)>>)}

ServiceOf(dataset, split, service) ==
    [f \in dataset[split].files |-> service[<<split, f>>]]

NoRun == [rows |-> <<>>, raw_records |-> <<>>, calls |-> <<>>]

\* for split in ["train", "valid", "test"]: a split without a directory is
\* passed over; the rows and raw records of the others are collected in order
SplitRuns(dataset, glob, service) ==
    [i \in DOMAIN Splits |->
        IF ~dataset[Splits[i]].dir
        THEN NoRun
        ELSE run_inference_on_split(Splits[i], glob[Splits[i]],
                                    ServiceOf(dataset, Splits[i], service))]

\* run_inference
RunInference ==
    /\ IF DatasetMissing
       THEN /\ UNCHANGED <<pred_csv, pred_jsonl, runs>>
            /\ ret' = Raised("run_inference")
       ELSE /\ runs < MaxRuns
            /\ runs' = runs + 1
            /\ \E glob \in GlobOrders(fs), service \in [Paths(fs) -> Outcomes] :
                  LET runs_ == SplitRuns(fs, glob, service)
                      all_rows == Concat([i \in DOMAIN runs_ |-> runs_[i].rows])
                      all_raw == Concat([i \in DOMAIN runs_ |-> runs_[i].raw_records])
                      df_pred == DataFrame(all_rows)
                  IN  /\ pred_csv' = to_csv(df_pred)
                      /\ pred_jsonl' = <<all_raw>>
                      /\ ret' = Returned("run_inference")
    /\ UNCHANGED <<fs, dataset_dir, obj_csv, gt_csv, merged_csv, inference>>

\* the answers of the inference service to a call of the loop: the call fails,
\* or it finds nothing, or it finds two panels
SplitOutcomes == {Failure, Result(<<>>), Result(<<Prediction(80, 3, 3), Prediction(55, 2, 5)>>)}

\* run_inference_on_split, called on its own for one split of the dataset
RunInferenceOnSplit(split) ==
    /\ \E glob \in Perms(fs[split].files), service \in [fs[split].files -> SplitOutcomes] :
          LET run == run_inference_on_split(split, glob, service)
          IN  ret' = [op |-> "run_inference_on_split", raised |-> FALSE, split |-> split,
                      service |-> service,
                      rows |-> run.rows, raw_records |-> run.raw_records,
                      calls |-> run.calls]
    /\ UNCHANGED <<fs, dataset_dir, obj_csv, gt_csv, pred_csv, pred_jsonl, merged_csv, runs, inference>>

\* evaluate_predictions: raises when a table is missing or cannot be read and
\* merged; else writes the merged table and returns the metrics
EvaluatePredictions ==
    /\ IF \/ ~Exists(gt_csv) \/ ~Exists(pred_csv)
          \/ ReadCsvRaises(gt_csv) \/ ReadCsvRaises(pred_csv)
       THEN /\ merged_csv' = merged_csv
            /\ ret' = Raised("evaluate_predictions")
       ELSE LET df_gt == read_csv(gt_csv)
                df_pred == read_csv(pred_csv)
                df_merged == Merge(df_gt, df_pred)
            IN  /\ merged_csv' = to_csv([columns |-> TRUE, rows |-> df_merged])
                /\ ret' = [op |-> "evaluate_predictions", raised |-> FALSE,
                           metrics |-> Metrics(df_merged)]
    /\ UNCHANGED <<fs, dataset_dir, obj_csv, gt_csv, pred_csv, pred_jsonl, runs, inference>>

\* parse_coco_split, called on its own
ParseCocoSplit(split) ==
    /\ ret' = [op |-> "parse_coco_split", raised |-> FALSE, split |-> split,
               value |-> parse_coco_split(split, fs)]
    /\ UNCHANGED <<fs, dataset_dir, obj_csv, gt_csv, pred_csv, pred_jsonl, merged_csv, runs, inference>>

\* build_gt_for_split, called on its own
BuildGtForSplit(split) ==
    /\ ret' = [op |-> "build_gt_for_split", raised |-> FALSE, split |-> split,
               value |-> build_gt_for_split(split, fs)]
    /\ UNCHANGED <<fs, dataset_dir, obj_csv, gt_csv, pred_csv, pred_jsonl, merged_csv, runs, inference>>

-----------------------------------------------------------------------------
(* The pipeline: any sequence of stage calls on one pipeline object, over a  *)
(* freshly created output directory.                                        *)

\* the one annotation record an image of a pipeline dataset may have
PanelOf(img) == AnnOf(img, Shape(<<0, 0, 2, 3>>, TRUE, 6, TRUE, 7))

\* the documents that list the images of the files F, in any order, each with
\* one annotation or none
PipelineDocs(F) ==
    UNION {{[images |-> [k \in DOMAIN p |-> ImageEntry(p[k])],
             annotations |-> LET ann == SelectSeq(p, LAMBDA f : f \in A)
                             IN  [k \in DOMAIN ann |-> PanelOf(ImageEntry(ann[k]))]] :
              A \in SUBSET F} :
           p \in Perms(F)}

\* a split: no directory, or a directory with image files and either no
\* annotation document or one that lists them
PipelineSplits(n) ==
    {NoDir} \cup
    UNION {{[dir |-> TRUE, files |-> F, coco |-> c] :
              c \in {<<>>} \cup {<<d>> : d \in PipelineDocs(F)}} :
           F \in SUBSET (1 .. n)}

\* the datasets with at most n image files in all
PipelineDatasets(n) ==
    {d \in [SplitSet -> PipelineSplits(n)] :
        SumSeq([i \in DOMAIN Splits |-> Cardinality(d[Splits[i]].files)]) <= n}

Init ==
    /\ fs \in PipelineDatasets(MaxFiles)
    /\ dataset_dir = FALSE
    /\ obj_csv = NoFile
    /\ gt_csv = NoFile
    /\ pred_csv = NoFile
    /\ pred_jsonl = NoFile
    /\ merged_csv = NoFile
    /\ ret = Returned("__init__")
    /\ runs = 0
    /\ inference = NoCall

Next ==
    \/ DownloadDataset
    \/ ExtractObjectLevelGt
    \/ ExtractImageLevelGt
    \/ RunInference
    \/ EvaluatePredictions

Spec == Init /\ [][Next]_vars

-----------------------------------------------------------------------------
(* The two ground-truth functions on one annotation document: "train" has   *)
(* the document, "valid" is a directory without one, "test" does not exist.  *)

Fresh ==
    /\ dataset_dir = FALSE
    /\ obj_csv = NoFile
    /\ gt_csv = NoFile
    /\ pred_csv = NoFile
    /\ pred_jsonl = NoFile
    /\ merged_csv = NoFile
    /\ ret = Returned("__init__")
    /\ runs = 0
    /\ inference = NoCall

GtDataset(doc) ==
    [s \in SplitSet |->
        IF s = "train"
        THEN [dir |-> TRUE,
              files |-> {doc.images[k].file_name : k \in DOMAIN doc.images},
              coco |-> <<doc>>]
        ELSE IF s = "valid"
        THEN [dir |-> TRUE, files |-> {}, coco |-> <<>>]
        ELSE NoDir]

InitGT ==
    /\ fs \in {GtDataset(doc) : doc \in CocoDocs(MaxImages, MaxAnns)}
    /\ Fresh

NextGT == \E split \in SplitSet : ParseCocoSplit(split) \/ BuildGtForSplit(split)

SpecGT == InitGT /\ [][NextGT]_vars

-----------------------------------------------------------------------------
(* The inference loop on one split: one split is a directory of image      *)
(* files (of none, too), the other two do not exist.                         *)

InferDataset(split, F) ==
    [s \in SplitSet |->
        IF s = split THEN [dir |-> TRUE, files |-> F, coco |-> <<>>] ELSE NoDir]

InitInfer ==
    /\ fs \in {InferDataset(split, F) : split \in SplitSet, F \in SUBSET (1 .. MaxPaths)}
    /\ Fresh

NextInfer == \E split \in SplitSet : RunInferenceOnSplit(split)

SpecInfer == InitInfer /\ [][NextInfer]_vars

-----------------------------------------------------------------------------
(* The evaluator on the tables of an earlier extraction and inference: for   *)
(* each of the files of one split, a ground-truth row or none and a          *)
(* prediction row or none.                                                   *)

\* number of boxes and summed area of an image in the ground truth
EvalGtOptions == {[n |-> 0, area |-> 0], [n |-> 1, area |-> 100], [n |-> 1, area |-> 200]}

\* results of the inference service: nothing, one panel of 90 px2, one of 200 px2
EvalResults ==
    {Result(<<>>), Result(<<Prediction(80, 9, 10)>>), Result(<<Prediction(60, 20, 10)>>)}

\* the elements of a set of numbers in ascending order
Ascending(S) == Sorted(CHOOSE p \in Perms(S) : TRUE)

EvalGtTable(g) ==
    LET files == Ascending(DOMAIN g)
    IN  [k \in DOMAIN files |->
            GtRow(ImageRows("train", <<ImageEntry(files[k])>>)[1],
                  g[files[k]].n, g[files[k]].area, 0)]

EvalPredTable(r) ==
    LET files == Ascending(DOMAIN r)
    IN  [k \in DOMAIN files |-> PredRow("train", files[k], r[files[k]])]

InitEval ==
    /\ fs = [s \in SplitSet |-> NoDir]
    /\ dataset_dir = FALSE
    /\ obj_csv = NoFile
    /\ \E G \in SUBSET (1 .. MaxRows) : \E g \in [G -> EvalGtOptions] :
          gt_csv = to_csv(DataFrame(EvalGtTable(g)))
    /\ \E P \in SUBSET (1 .. MaxRows) : \E r \in [P -> EvalResults] :
          /\ pred_csv = to_csv(DataFrame(EvalPredTable(r)))
          /\ pred_jsonl = <<[k \in DOMAIN EvalPredTable(r) |->
                               RawRecord("train", EvalPredTable(r)[k].file_name,
                                         r[EvalPredTable(r)[k].file_name])]>>
    /\ merged_csv = NoFile
    /\ ret = Returned("__init__")
    /\ runs = 0
    /\ inference = NoCall

NextEval == EvaluatePredictions

SpecEval == InitEval /\ [][NextEval]_vars

-----------------------------------------------------------------------------
(* Ground-truth extraction of one split (SpecGT). *)

\* the annotation records of the document that refer to the image with this id
AnnsOf(doc, id) == SelectSeq(doc.annotations, LAMBDA ann : ann.image_id = id)

\* C1: when the annotation document of the split exists, build_gt_for_split
\* returns exactly one row per entry of its images section, in its order, and
\* the row of an image without any annotation record has num_boxes_gt = 0,
\* area_px_gt = 0, area_m2_gt = 0 and has_solar_gt = FALSE, whether the document
\* has no annotations at all or only some images have them.
C1_OneRowPerImage ==
    (ret.op = "build_gt_for_split" /\ CocoExists(fs, ret.split)) =>
        LET doc == LoadCoco(fs, ret.split)
            rows == ret.value
        IN  /\ ~ret.raised
            /\ Len(rows) = Len(doc.images)
            /\ \A k \in DOMAIN doc.images :
                  /\ rows[k].split = ret.split
                  /\ rows[k].image_id = doc.images[k].id
                  /\ rows[k].file_name = doc.images[k].file_name
                  /\ AnnsOf(doc, doc.images[k].id) = <<>> =>
                        /\ rows[k].num_boxes_gt = 0
                        /\ rows[k].area_px_gt = 0
                        /\ rows[k].area_m2_gt = 0
                        /\ rows[k].has_solar_gt = FALSE

\* build_gt_for_split has returned for a document in which one image has
\* annotations and another has none
C1_Witness ==
    /\ ret.op = "build_gt_for_split"
    /\ CocoExists(fs, ret.split)
    /\ LET doc == LoadCoco(fs, ret.split)
       IN  /\ \E k \in DOMAIN doc.images : AnnsOf(doc, doc.images[k].id) = <<>>
           /\ \E k \in DOMAIN doc.images : AnnsOf(doc, doc.images[k].id) # <<>>
           /\ Len(ret.value) = Len(doc.images)

\* C7: for every image of a split, area_px_gt of build_gt_for_split is the sum
\* of area_px over the rows parse_coco_split produces for that image from the
\* same document (a record without "area" counting as width x height), and
\* num_boxes_gt is the number of those rows.
C7_AreaIsSumOfObjectRows ==
    (ret.op = "build_gt_for_split" /\ CocoExists(fs, ret.split)) =>
        LET objects == parse_coco_split(ret.split, fs)
        IN  \A k \in DOMAIN ret.value :
               LET mine == SelectSeq(objects, LAMBDA o : o.image_id = ret.value[k].image_id)
               IN  /\ ret.value[k].num_boxes_gt = Len(mine)
                   /\ ret.value[k].area_px_gt = SumSeq([j \in DOMAIN mine |-> mine[j].area_px])

-----------------------------------------------------------------------------
(* The inference loop of one split (SpecInfer). *)

\* C2: whichever images the inference call fails on, run_inference_on_split
\* does not raise, calls the service exactly once per image file of the split,
\* in sorted path order, and returns one prediction row and one raw record for
\* each image whose call succeeded and none for the others, in that order: the
\* images after a failed one are still processed.
C2_PartialFailureTolerated ==
    ret.op = "run_inference_on_split" =>
        LET sorted == Ascending(fs[ret.split].files)
            succeeded == SelectSeq(sorted, LAMBDA f : ret.service[f].ok)
        IN  /\ ~ret.raised
            /\ ret.calls = sorted
            /\ Len(ret.rows) = Len(succeeded)
            /\ Len(ret.raw_records) = Len(succeeded)
            /\ \A k \in DOMAIN succeeded :
                  /\ ret.rows[k].split = ret.split
                  /\ ret.rows[k].file_name = succeeded[k]
                  /\ ret.raw_records[k].split = ret.split
                  /\ ret.raw_records[k].file_name = succeeded[k]
                  /\ ret.raw_records[k].result = ret.service[succeeded[k]]

\* the call failed on one image and succeeded on a later one, which has its row
C2_Witness ==
    /\ ret.op = "run_inference_on_split"
    /\ \E f, g \in fs[ret.split].files :
          /\ f < g
          /\ ~ret.service[f].ok
          /\ ret.service[g].ok
          /\ \E k \in DOMAIN ret.rows : ret.rows[k].file_name = g

-----------------------------------------------------------------------------
(* The stages in any order (Spec). *)

Files == <<obj_csv, gt_csv, pred_csv, pred_jsonl, merged_csv>>

\* C3: a stage called before its prerequisite exists raises and writes nothing:
\* evaluate_predictions without the ground-truth table or without the
\* prediction table raises, leaves the merged table alone and returns no
\* metrics; extract_object_level_gt, extract_image_level_gt and run_inference
\* before download_dataset has set the dataset location raise and write no
\* file. The merged table is written only when both tables were written before.
C3_PrerequisitesEnforced ==
    /\ [][/\ (ret'.op = "evaluate_predictions" /\ (~Exists(gt_csv) \/ ~Exists(pred_csv))) =>
               (ret' = Raised("evaluate_predictions") /\ Files' = Files)
          /\ (/\ ret'.op \in {"extract_object_level_gt", "extract_image_level_gt",
                              "run_inference"}
              /\ ~dataset_dir) =>
               (ret'.raised /\ Files' = Files)
          /\ merged_csv' # merged_csv => (Exists(gt_csv) /\ Exists(pred_csv))]_vars
    /\ [](Exists(merged_csv) => (Exists(gt_csv) /\ Exists(pred_csv)))

\* evaluate_predictions was called after the extraction and before any
\* inference, and raised; there is no merged table
C3_Witness ==
    /\ ret = Raised("evaluate_predictions")
    /\ dataset_dir
    /\ Exists(gt_csv)
    /\ ~Exists(pred_csv)
    /\ ~Exists(merged_csv)

\* the splits whose annotation document exists
PresentSplits == SelectSeq(Splits, LAMBDA s : CocoExists(fs, s))

\* C4: whichever of the three splits have no annotation document (all three
\* included), parse_coco_split and build_gt_for_split return an empty result
\* for each of them, and extract_object_level_gt and extract_image_level_gt
\* return without raising, with the rows of exactly the splits that are there.
C4_MissingSplitsRecoverable ==
    /\ \A s \in SplitSet :
          ~CocoExists(fs, s) =>
              (parse_coco_split(s, fs) = <<>> /\ build_gt_for_split(s, fs) = <<>>)
    /\ (ret.op = "extract_object_level_gt" /\ dataset_dir) =>
          /\ ~ret.raised
          /\ read_csv(obj_csv) =
                Concat([i \in DOMAIN PresentSplits |-> parse_coco_split(PresentSplits[i], fs)])
    /\ (ret.op = "extract_image_level_gt" /\ dataset_dir) =>
          /\ ~ret.raised
          /\ read_csv(gt_csv) =
                Concat([i \in DOMAIN PresentSplits |-> build_gt_for_split(PresentSplits[i], fs)])

\* C8: the table extract_image_level_gt writes is the per-split tables of
\* build_gt_for_split one after the other, train, valid, test: as many rows as
\* they have together, every row with the split it came from, and one row, no
\* more, for every image a split lists.
C8_CorpusTableIsConcatenation ==
    Exists(gt_csv) =>
        LET rows == read_csv(gt_csv)
            per_split == [i \in DOMAIN Splits |-> build_gt_for_split(Splits[i], fs)]
        IN  /\ rows = per_split[1] \o per_split[2] \o per_split[3]
            /\ Len(rows) = Len(per_split[1]) + Len(per_split[2]) + Len(per_split[3])
            /\ \A s \in SplitSet :
                  CocoExists(fs, s) =>
                      \A img \in Range(LoadCoco(fs, s).images) :
                          Cardinality({k \in DOMAIN rows :
                              rows[k].split = s /\ rows[k].image_id = img.id}) = 1
            /\ \A k \in DOMAIN rows :
                  /\ CocoExists(fs, rows[k].split)
                  /\ \E img \in Range(LoadCoco(fs, rows[k].split).images) :
                        img.id = rows[k].image_id /\ img.file_name = rows[k].file_name

\* the table has rows of two splits, and a third split has no document
C8_Witness ==
    /\ Exists(gt_csv)
    /\ ret = Returned("extract_image_level_gt")
    /\ \E s \in SplitSet : ~CocoExists(fs, s)
    /\ LET rows == read_csv(gt_csv)
       IN  \E j, k \in DOMAIN rows : j < k /\ rows[j].split # rows[k].split

-----------------------------------------------------------------------------
(* The evaluator (SpecEval). *)

Key(row) == <<row.split, row.file_name>>

Keys(table) == {Key(table[k]) : k \in DOMAIN table}

RowOf(table, key) == table[CHOOSE k \in DOMAIN table : Key(table[k]) = key]

EvaluateReturned == ret.op = "evaluate_predictions" /\ ~ret.raised

\* C5: the merged table is a strict inner join on (split, file_name): a key is
\* in the merged table if and only if it is in the ground-truth table and in
\* the prediction table, and only those keys are counted in tp, fp, fn, tn,
\* total_images and the number of images of the area metrics.
C5_StrictInnerJoin ==
    EvaluateReturned =>
        LET gt == read_csv(gt_csv)
            pred == read_csv(pred_csv)
            merged == read_csv(merged_csv)
            both == Keys(gt) \cap Keys(pred)
            Cell(g, p) == {key \in both : /\ RowOf(gt, key).has_solar_gt = g
                                          /\ RowOf(pred, key).has_solar_pred = p}
            m == ret.metrics
        IN  /\ Keys(merged) = both
            /\ Len(merged) = Cardinality(both)
            /\ m.total_images = Cardinality(both)
            /\ m.tp = Cardinality(Cell(TRUE, TRUE))
            /\ m.fp = Cardinality(Cell(FALSE, TRUE))
            /\ m.fn = Cardinality(Cell(TRUE, FALSE))
            /\ m.tn = Cardinality(Cell(FALSE, FALSE))
            /\ m.num_images_area_eval =
                  Cardinality({key \in both : \/ RowOf(gt, key).area_px_gt > 0
                                              \/ RowOf(pred, key).area_px_pred > 0})

\* the evaluation has returned for tables with an image in both, an image in
\* the ground truth only and an image in the predictions only
C5_Witness ==
    /\ EvaluateReturned
    /\ Keys(read_csv(gt_csv)) \cap Keys(read_csv(pred_csv)) # {}
    /\ Keys(read_csv(gt_csv)) \ Keys(read_csv(pred_csv)) # {}
    /\ Keys(read_csv(pred_csv)) \ Keys(read_csv(gt_csv)) # {}

\* C6: tp + tn + fp + fn = total_images, the number of rows of the merged
\* table, and each merged row is counted in exactly one of the four cells.
C6_ConfusionMatrixAddsUp ==
    EvaluateReturned =>
        LET merged == read_csv(merged_csv)
            m == ret.metrics
            Cell(g, p) == {k \in DOMAIN merged : /\ merged[k].has_solar_gt = g
                                                 /\ merged[k].has_solar_pred = p}
        IN  /\ m.tp + m.tn + m.fp + m.fn = m.total_images
            /\ m.total_images = Len(merged)
            /\ m.tp = Cardinality(Cell(TRUE, TRUE))
            /\ m.tn = Cardinality(Cell(FALSE, FALSE))
            /\ m.fp = Cardinality(Cell(FALSE, TRUE))
            /\ m.fn = Cardinality(Cell(TRUE, FALSE))
            /\ \A k \in DOMAIN merged :
                  Cardinality({c \in BOOLEAN \X BOOLEAN : k \in Cell(c[1], c[2])}) = 1

\* the evaluation has returned with three of the four cells occupied
C6_Witness ==
    /\ EvaluateReturned
    /\ ret.metrics.tp > 0
    /\ ret.metrics.fn > 0
    /\ ret.metrics.tn > 0
    /\ ret.metrics.total_images = 3

RECURSIVE SumFn(_)
\* the sum of the values of a function with a finite domain
SumFn(f) ==
    IF DOMAIN f = {} THEN 0
    ELSE LET x == CHOOSE x \in DOMAIN f : TRUE
         IN  f[x] + SumFn([y \in DOMAIN f \ {x} |-> f[y]])

RECURSIVE LcmOf(_)
\* the least common multiple of a set of positive numbers
LcmOf(S) ==
    IF S = {} THEN 1
    ELSE LET x == CHOOSE x \in S : TRUE
             l == LcmOf(S \ {x})
         IN  (x * l) \div Gcd(x, l)

\* C9: MAPE is the mean of |predicted - ground truth| / ground truth x 100 over
\* the area-evaluated rows whose ground-truth area is not 0; a row with
\* ground-truth area 0 adds nothing to the sum and is not counted in the mean
\* (with no such row left the mean is NaN), while MAE and RMSE are means over
\* all the area-evaluated rows.
C9_MapeSkipsZeroGroundTruth ==
    EvaluateReturned =>
        LET merged == read_csv(merged_csv)
            m == ret.metrics
            evaluated == {k \in DOMAIN merged :
                            merged[k].area_px_gt > 0 \/ merged[k].area_px_pred > 0}
            defined == {k \in evaluated : merged[k].area_px_gt # 0}
            err(k) == Abs(merged[k].area_px_pred - merged[k].area_px_gt)
            lcm == LcmOf({merged[k].area_px_gt : k \in defined})
        IN  /\ m.mape_percent =
                  IF defined = {} THEN NaN
                  ELSE Num(Frac(SumFn([k \in defined |->
                                   err(k) * 100 * (lcm \div merged[k].area_px_gt)]),
                                lcm * Cardinality(defined)))
            /\ m.mae_px2 =
                  IF evaluated = {} THEN NaN
                  ELSE Num(Frac(SumFn([k \in evaluated |-> err(k)]), Cardinality(evaluated)))
            /\ m.rmse_px2 =
                  Sqrt(IF evaluated = {} THEN NaN
                       ELSE Num(Frac(SumFn([k \in evaluated |-> err(k) * err(k)]),
                                     Cardinality(evaluated))))
            /\ m.num_images_area_eval = Cardinality(evaluated)

\* the evaluation has returned for a merged table with a false positive
\* (ground-truth area 0, predicted area > 0) and a row of non-zero ground-truth
\* area that the prediction misses
C9_Witness ==
    /\ EvaluateReturned
    /\ LET merged == read_csv(merged_csv)
       IN  /\ \E k \in DOMAIN merged :
                 merged[k].area_px_gt = 0 /\ merged[k].area_px_pred > 0
           /\ \E k \in DOMAIN merged :
                 merged[k].area_px_gt > 0 /\ merged[k].area_px_pred # merged[k].area_px_gt
    /\ ~ret.metrics.mape_percent.nan
    /\ ret.metrics.num_images_area_eval = 3

\* the two tables of the scenario: three images of one split, A with one object
\* of 100 px2 and one prediction of 90 px2, B with no object and no prediction,
\* C with one object of 200 px2 and no prediction
Scenario ==
    /\ Exists(gt_csv)
    /\ Exists(pred_csv)
    /\ LET gt == read_csv(gt_csv)
           pred == read_csv(pred_csv)
           Gt(key, n, area) ==
               /\ key \in Keys(gt)
               /\ RowOf(gt, key).num_boxes_gt = n
               /\ RowOf(gt, key).area_px_gt = area
           Pred(key, n, area) ==
               /\ key \in Keys(pred)
               /\ RowOf(pred, key).num_preds = n
               /\ RowOf(pred, key).area_px_pred = area
       IN  /\ Len(gt) = 3
           /\ Len(pred) = 3
           /\ \E A, B, C \in Keys(gt) :
                 /\ A # B /\ B # C /\ A # C
                 /\ A[1] = B[1] /\ B[1] = C[1]
                 /\ Gt(A, 1, 100) /\ Pred(A, 1, 90)
                 /\ Gt(B, 0, 0) /\ Pred(B, 0, 0)
                 /\ Gt(C, 1, 200) /\ Pred(C, 0, 0)

\* C10: on the scenario evaluate_predictions returns tp = 1, tn = 1, fn = 1,
\* fp = 0, accuracy 2/3 (the quotient of 2 and 3 + eps), and an area MAE over
\* the images A and C alone, (|90 - 100| + |0 - 200|) / 2 = 105, with
\* num_images_area_eval = 2.
C10_EndToEndScenario ==
    (Scenario /\ ret.op = "evaluate_predictions") =>
        LET m == ret.metrics
        IN  /\ ~ret.raised
            /\ m.tp = 1
            /\ m.tn = 1
            /\ m.fn = 1
            /\ m.fp = 0
            /\ m.accuracy = EpsRatio(2, 3)
            /\ m.mae_px2 = Num(Frac(105, 1))
            /\ m.num_images_area_eval = 2
            /\ m.total_images = 3

\* the evaluation has returned on the scenario
C10_Witness == Scenario /\ EvaluateReturned

-----------------------------------------------------------------------------
(* run_complete_pipeline (SpecPipeline): the five stages called one after    *)
(* the other on a fresh pipeline object.  run_inference is followed call by  *)
(* call: `inference` holds its locals while it runs, and `calls` the calls   *)
(* of the inference service that have returned or failed so far.             *)

\* a stage whose exception run_complete_pipeline would catch and pass over
ProceedsAnyway(stage) == ret.op = stage

\* the statement after the call of a stage is reached when the stage has
\* returned; an exception leaves run_complete_pipeline (it has no try)
Proceeds(stage) == ret = Returned(stage)

\* self.download_dataset()
PipelineDownload == Proceeds("__init__") /\ DownloadDataset

\* self.extract_object_level_gt()
PipelineExtractObjects == Proceeds("download_dataset") /\ ExtractObjectLevelGt

\* self.extract_image_level_gt()
PipelineExtractImages == Proceeds("extract_object_level_gt") /\ ExtractImageLevelGt

\* self.run_inference(model_id) is entered: the dataset check, then
\* all_rows, all_raw = [], [] before the loop over the splits
InferStart ==
    /\ Proceeds("extract_image_level_gt")
    /\ ~inference.active
    /\ IF DatasetMissing
       THEN /\ ret' = Raised("run_inference")
            /\ inference' = inference
       ELSE /\ ret' = ret
            /\ inference' = [active |-> TRUE, split |-> 1, in_split |-> FALSE,
                             image_paths |-> <<>>, rows |-> <<>>, raw_records |-> <<>>,
                             all_rows |-> <<>>, all_raw |-> <<>>, calls |-> <<>>]
    /\ UNCHANGED <<fs, dataset_dir, obj_csv, gt_csv, pred_csv, pred_jsonl, merged_csv, runs>>

\* for split in ["train", "valid", "test"]: a split without a directory is
\* passed over; run_inference_on_split lists and sorts the paths of another
InferEnterSplit ==
    /\ inference.active
    /\ ~inference.in_split
    /\ inference.split <= Len(Splits)
    /\ LET split == Splits[inference.split]
       IN  IF ~fs[split].dir
           THEN inference' = [inference EXCEPT !.split = @ + 1]
           ELSE \E glob \in Perms(fs[split].files) :
                   inference' = [inference EXCEPT !.in_split = TRUE,
                                                  !.image_paths = Sorted(glob),
                                                  !.rows = <<>>,
                                                  !.raw_records = <<>>]
    /\ UNCHANGED <<fs, dataset_dir, obj_csv, gt_csv, pred_csv, pred_jsonl, merged_csv, ret, runs>>

\* one turn of for img_path in image_paths: the call of the inference service
\* fails and the image is passed over, or it returns and the image gets its
\* row and its raw record
InferCall ==
    /\ inference.active
    /\ inference.in_split
    /\ inference.image_paths # <<>>
    /\ \E result \in Outcomes :
          LET split == Splits[inference.split]
              file_name == Head(inference.image_paths)
              call == [split |-> split, file_name |-> file_name, result |-> result]
          IN  inference' =
                  IF result = Failure
                  THEN [inference EXCEPT !.image_paths = Tail(@),
                                         !.calls = Append(@, call)]
                  ELSE [inference EXCEPT !.image_paths = Tail(@),
                                         !.calls = Append(@, call),
                                         !.rows = Append(@, PredRow(split, file_name, result)),
                                         !.raw_records =
                                             Append(@, RawRecord(split, file_name, result))]
    /\ UNCHANGED <<fs, dataset_dir, obj_csv, gt_csv, pred_csv, pred_jsonl, merged_csv, ret, runs>>

\* run_inference_on_split returns: all_rows.extend(rows); all_raw.extend(raw)
InferReturnSplit ==
    /\ inference.active
    /\ inference.in_split
    /\ inference.image_paths = <<>>
    /\ inference' = [inference EXCEPT !.in_split = FALSE,
                                      !.split = @ + 1,
                                      !.all_rows = @ \o inference.rows,
                                      !.all_raw = @ \o inference.raw_records,
                                      !.rows = <<>>,
                                      !.raw_records = <<>>]
    /\ UNCHANGED <<fs, dataset_dir, obj_csv, gt_csv, pred_csv, pred_jsonl, merged_csv, ret, runs>>

\* after the loop: the prediction table and the raw records are written and
\* run_inference returns
InferSave ==
    /\ inference.active
    /\ ~inference.in_split
    /\ inference.split > Len(Splits)
    /\ pred_csv' = to_csv(DataFrame(inference.all_rows))
    /\ pred_jsonl' = <<inference.all_raw>>
    /\ ret' = Returned("run_inference")
    /\ runs' = runs + 1
    /\ inference' = [active |-> FALSE, calls |-> inference.calls]
    /\ UNCHANGED <<fs, dataset_dir, obj_csv, gt_csv, merged_csv>>

\* metrics = self.evaluate_predictions()
PipelineEvaluate == Proceeds("run_inference") /\ EvaluatePredictions

InitPipeline == Init

NextPipeline ==
    \/ PipelineDownload
    \/ PipelineExtractObjects
    \/ PipelineExtractImages
    \/ InferStart
    \/ InferEnterSplit
    \/ InferCall
    \/ InferReturnSplit
    \/ InferSave
    \/ PipelineEvaluate

SpecPipeline == InitPipeline /\ [][NextPipeline]_vars

\* the stages of run_complete_pipeline, after the construction of the object
StageOrder ==
    <<"__init__", "download_dataset", "extract_object_level_gt", "extract_image_level_gt",
      "run_inference", "evaluate_predictions">>

Position(op) == CHOOSE i \in DOMAIN StageOrder : StageOrder[i] = op

\* the calls of the inference service so far that returned, as prediction rows
RowsOfCalls(calls) ==
    LET returned == SelectSeq(calls, LAMBDA c : c.result # Failure)
    IN  [k \in DOMAIN returned |->
            PredRow(returned[k].split, returned[k].file_name, returned[k].result)]

\* the inference call for every image of every existing split has returned or
\* failed, once each, and the prediction table holds the rows of those that
\* returned
InferenceComplete ==
    /\ ~inference.active
    /\ {<<inference.calls[k].split, inference.calls[k].file_name>> :
           k \in DOMAIN inference.calls} = Paths(fs)
    /\ Len(inference.calls) = Cardinality(Paths(fs))
    /\ Exists(pred_csv)
    /\ pred_csv = to_csv(DataFrame(RowsOfCalls(inference.calls)))

\* C11: in every run of run_complete_pipeline the stages execute strictly in
\* the order download, object-level extraction, image-level extraction,
\* inference, evaluation, each finishing before the next starts (a stage ends
\* only right after the one before it has returned, and an output file is
\* written only in its own stage); evaluation begins only after the inference
\* call for every image of every existing split has returned or failed and the
\* prediction table has been written; and once a stage has raised, nothing
\* more happens.
C11_StagesInOrder ==
    [][ /\ ~ret.raised
        /\ ret'.op # ret.op => Position(ret'.op) = Position(ret.op) + 1
        /\ (inference.active \/ inference'.active) => ret.op = "extract_image_level_gt"
        /\ obj_csv' # obj_csv => ret.op = "download_dataset"
        /\ gt_csv' # gt_csv => ret.op = "extract_object_level_gt"
        /\ (pred_csv' # pred_csv \/ pred_jsonl' # pred_jsonl) =>
              inference.active /\ ~inference'.active
        /\ merged_csv' # merged_csv => ret.op = "run_inference"
        /\ ret'.op = "evaluate_predictions" =>
              /\ ret = Returned("run_inference")
              /\ InferenceComplete
              /\ Exists(obj_csv) /\ Exists(gt_csv)
      ]_vars

\* run_complete_pipeline has returned the metrics of a dataset with images in
\* two splits, one of whose inference calls failed while the other returned
C11_Witness ==
    /\ ret.op = "evaluate_predictions"
    /\ ~ret.raised
    /\ Len(inference.calls) = 2
    /\ inference.calls[1].split # inference.calls[2].split
    /\ inference.calls[1].result = Failure
    /\ inference.calls[2].result # Failure
    /\ ret.metrics.total_images = 1

=============================================================================
